---------------------------- MODULE Spec2Model ----------------------------
(***************************************************************************)
(* Model of src/Python/hdf5.py: the HDF5 accessor over a .uni file, the    *)
(* run-name metadata accessors, the two SQL writers, the generic mapper    *)
(* df_to_sql, add_datetime and verify.                                     *)
(*                                                                         *)
(* Text is modelled as a sequence of one-character strings, so that        *)
(* str.split, re.search and the f-string formatting are computed and not   *)
(* assumed.                                                                *)
(***************************************************************************)
EXTENDS Integers, Sequences, FiniteSets, TLC

VARIABLES
    run_name,           \* attrs['Run Name'] of the opened file (text)
    sample_data,        \* the SampleData dataset: sequence of <<well, sample>>
    file,               \* the h5py handle held in self.file: "open" / "closed"
    closes,             \* how many times the handle has been released
    alive,              \* the HDF5 object still exists
    uncle_instruments,  \* database table, sequence of rows
    uncle_experiments,  \* database table, sequence of rows
    products,           \* database reference table, set of [id, name]
    clock,              \* the wall clock read by datetime.now()
    last                \* what the last call was given and what it produced

vars == <<run_name, sample_data, file, closes, alive, uncle_instruments,
          uncle_experiments, products, clock, last>>

-----------------------------------------------------------------------------
(* Bounds of the model *)

MaxNameLen == 6
MaxWells == 10
MaxVerify == 25
MaxExperiments == 2
MaxInstruments == 2
MaxClock == 3

-----------------------------------------------------------------------------
(* Text helpers *)

Digits == {"0", "1", "2", "3", "4", "5", "6", "7", "8", "9"}

DigitChar == <<"0", "1", "2", "3", "4", "5", "6", "7", "8", "9">>

DigitVal(c) == CHOOSE n \in 0..9 : DigitChar[n + 1] = c

IsDigit(c) == c \in Digits

\* results of a call: a returned value or a raised exception
Ok(v) == <<"ok", v>>
Err(e) == <<"raise", e>>
IsOk(r) == r[1] = "ok"
IsErr(r) == r[1] = "raise"

\* sequences over S of length 0..n
SeqUpTo(S, n) == UNION {[1..k -> S] : k \in 0..n}

\* str.split(sep), scanning from the i-th character with cur the token so far:
\* always at least one token; a separator-free text is one token
RECURSIVE SplitFrom(_, _, _, _)
SplitFrom(s, sep, i, cur) ==
    IF i > Len(s) THEN <<cur>>
    ELSE IF s[i] = sep THEN <<cur>> \o SplitFrom(s, sep, i + 1, <<>>)
    ELSE SplitFrom(s, sep, i + 1, Append(cur, s[i]))

split(s, sep) == SplitFrom(s, sep, 1, <<>>)

\* sep.join(tokens)
RECURSIVE join(_, _)
join(tokens, sep) ==
    IF Len(tokens) = 0 THEN <<>>
    ELSE IF Len(tokens) = 1 THEN tokens[1]
    ELSE tokens[1] \o <<sep>> \o join(Tail(tokens), sep)

\* list indexing with Python's negative indices: IndexError when out of range
Index(lst, i) ==
    IF i >= 0
    THEN IF i < Len(lst) THEN Ok(lst[i + 1]) ELSE Err("IndexError")
    ELSE IF -i <= Len(lst) THEN Ok(lst[Len(lst) + i + 1]) ELSE Err("IndexError")

\* the class a regex atom matches: \d or \D
Matches(cls, c) == IF cls = "d" THEN IsDigit(c) ELSE ~IsDigit(c)

\* re.search of  cls+  (anchored = FALSE)  or  cls+$  (anchored = TRUE):
\* the leftmost start from which a greedy run of the class matches; None when
\* there is none.  A match is never empty: + needs one character.
None == <<"None">>

\* re.search with * in place of + : an empty match where + finds none
re_search_star(cls, anchored, s) ==
    LET Run(i) == {e \in i..Len(s) : \A k \in i..e : Matches(cls, s[k])}
        End(i) == CHOOSE e \in Run(i) : \A f \in Run(i) : f <= e
    IN IF anchored
       THEN LET Starts == {i \in 1..Len(s) : Run(i) # {} /\ End(i) = Len(s)}
            IN IF Starts = {} THEN <<"Match", <<>>>>
               ELSE LET i == CHOOSE j \in Starts : \A k \in Starts : j <= k
                    IN <<"Match", SubSeq(s, i, Len(s))>>
       ELSE IF Len(s) > 0 /\ Matches(cls, s[1])
            THEN <<"Match", SubSeq(s, 1, End(1))>>
            ELSE <<"Match", <<>>>>

\* re.search with a lazy quantifier: the match stops after one character
re_search_lazy(cls, anchored, s) ==
    LET Starts == {i \in 1..Len(s) :
                      /\ Matches(cls, s[i])
                      /\ (anchored => \A k \in i..Len(s) : Matches(cls, s[k]))}
    IN IF Starts = {} THEN <<"None">>
       ELSE LET i == CHOOSE j \in Starts : \A k \in Starts : j <= k
            IN <<"Match", IF anchored THEN SubSeq(s, i, Len(s)) ELSE <<s[i]>>>>

re_search(cls, anchored, s) ==
    LET RunEnd(i) ==    \* last index of the maximal run of the class from i
            CHOOSE e \in i..Len(s) :
                /\ \A k \in i..e : Matches(cls, s[k])
                /\ (e = Len(s) \/ ~Matches(cls, s[e + 1]))
        Starts == {i \in 1..Len(s) :
                      /\ Matches(cls, s[i])
                      /\ (anchored => RunEnd(i) = Len(s))}
    IN IF Starts = {} THEN None
       ELSE LET i == CHOOSE j \in Starts : \A k \in Starts : j <= k
            IN <<"Match", SubSeq(s, i, RunEnd(i))>>

\* match.group(): AttributeError on None
group(m) == IF m = None THEN Err("AttributeError") ELSE Ok(m[2])

\* int(text) for text made of the modelled characters: a non-empty run of
\* decimal digits, ValueError otherwise
RECURSIVE DecimalValue(_)
DecimalValue(s) ==
    IF Len(s) = 0 THEN 0
    ELSE 10 * DecimalValue(SubSeq(s, 1, Len(s) - 1)) + DigitVal(s[Len(s)])

int(s) ==
    IF Len(s) > 0 /\ \A i \in 1..Len(s) : IsDigit(s[i])
    THEN Ok(DecimalValue(s))
    ELSE Err("ValueError")


-----------------------------------------------------------------------------
(* The run-name accessors of class HDF5 *)

\* self.file['Application1']['Run1'].attrs['Run Name'].decode('utf-8')
exp_name == run_name

tokens == split(exp_name, "-")

DaysIn(yy, mm) ==
    IF mm \in {4, 6, 9, 11} THEN 30
    ELSE IF mm = 2 THEN (IF yy % 4 = 0 THEN 29 ELSE 28)
    ELSE 31

IsYYMMDD(s) ==
    /\ Len(s) = 6
    /\ \A i \in 1..6 : IsDigit(s[i])
    /\ LET yy == DecimalValue(SubSeq(s, 1, 2))
           mm == DecimalValue(SubSeq(s, 3, 4))
           dd == DecimalValue(SubSeq(s, 5, 6))
       IN mm \in 1..12 /\ dd \in 1..DaysIn(yy, mm)

NaT == [yy |-> -1, mm |-> -1, dd |-> -1]
OtherDate == [yy |-> -2, mm |-> -2, dd |-> -2]

\* pd.to_datetime(text, yearfirst = True): the set of outcomes the library can
\* produce.  YYMMDD gives that date; the empty text gives NaT; a text with a
\* character that is no digit is rejected; what other digit strings give
\* depends on the library's date guessing, so both outcomes are possible.
to_datetime(s) ==
    IF IsYYMMDD(s)
    THEN {Ok([yy |-> DecimalValue(SubSeq(s, 1, 2)),
              mm |-> DecimalValue(SubSeq(s, 3, 4)),
              dd |-> DecimalValue(SubSeq(s, 5, 6))])}
    ELSE IF Len(s) = 0 THEN {Ok(NaT)}
    ELSE IF \E i \in 1..Len(s) : ~IsDigit(s[i]) THEN {Err("ValueError")}
    ELSE {Err("ValueError"), Ok(OtherDate)}

\* pd.to_datetime(self.exp_name().split('-')[0], yearfirst = True)
exp_date ==
    LET t == Index(tokens, 0)
    IN IF IsErr(t) THEN {t} ELSE to_datetime(t[2])

\* int(self.exp_name().split('-')[1])
exp_inst_num ==
    LET t == Index(tokens, 1)
    IN IF IsErr(t) THEN t ELSE int(t[2])

\* self.exp_name().split('-')[2]
exp_product == Index(tokens, 2)

\* self.exp_name().split('-')[-1]; a split is never empty
plate_info == Index(tokens, -1)[2]

\* re.search(r'\D+', plate_info).group()
exp_plate_type == group(re_search("D", FALSE, plate_info))

\* re.search(r'\d+', plate_info).group()
exp_generation == group(re_search("d", FALSE, plate_info))

\* re.search(r'\D+$', plate_info).group()
exp_plate_side == group(re_search("D", TRUE, plate_info))

-----------------------------------------------------------------------------
(* States shared by the specifications *)

NameChars == {"-", "1", "p", "R"}

NoCall == [op |-> "none"]

IdleFile ==
    /\ sample_data = <<>>
    /\ file = "open"
    /\ closes = 0
    /\ alive = TRUE

IdleStore ==
    /\ uncle_instruments = <<>>
    /\ uncle_experiments = <<>>
    /\ products = {}
    /\ clock = 0

Usable == alive /\ file = "open"

-----------------------------------------------------------------------------
(* SpecParse: the accessors applied to every run name up to MaxNameLen *)

InitParse ==
    /\ run_name \in SeqUpTo(NameChars, MaxNameLen)
    /\ IdleFile
    /\ IdleStore
    /\ last = NoCall

Returned(op, r) ==
    /\ Usable
    /\ last' = [op |-> op, result |-> r]
    /\ UNCHANGED <<run_name, sample_data, file, closes, alive,
                   uncle_instruments, uncle_experiments, products, clock>>

CallExpDate == \E r \in exp_date : Returned("exp_date", r)
CallExpInstNum == Returned("exp_inst_num", exp_inst_num)
CallExpProduct == Returned("exp_product", exp_product)
CallExpPlateType == Returned("exp_plate_type", exp_plate_type)
CallExpGeneration == Returned("exp_generation", exp_generation)
CallExpPlateSide == Returned("exp_plate_side", exp_plate_side)

NextParse ==
    \/ CallExpDate
    \/ CallExpInstNum
    \/ CallExpProduct
    \/ CallExpPlateType
    \/ CallExpGeneration
    \/ CallExpPlateSide

SpecParse == InitParse /\ [][NextParse]_vars


-----------------------------------------------------------------------------
(* Claims about the accessors, checked under SpecParse *)

AccessorOps == {"exp_date", "exp_inst_num", "exp_product", "exp_plate_type",
                "exp_generation", "exp_plate_side"}

HasDigit(s) == \E i \in 1..Len(s) : IsDigit(s[i])
HasNonDigit(s) == \E i \in 1..Len(s) : ~IsDigit(s[i])
AllDigits(s) == \A i \in 1..Len(s) : IsDigit(s[i])

\* r occupies s[i .. i + Len(r) - 1]
OccursAt(r, s, i) ==
    /\ i >= 1
    /\ i + Len(r) - 1 <= Len(s)
    /\ \A k \in 1..Len(r) : s[i + k - 1] = r[k]

IsSubstring(r, s) == \E i \in 1..(Len(s) + 1) : OccursAt(r, s, i)
IsPrefix(r, s) == OccursAt(r, s, 1)
IsSuffix(r, s) == OccursAt(r, s, Len(s) - Len(r) + 1)

\* the prefix of s up to its first digit, and the suffix after its last digit
LeadingNonDigits(s) ==
    SubSeq(s, 1, CHOOSE k \in 0..Len(s) :
                     /\ \A i \in 1..k : ~IsDigit(s[i])
                     /\ (k = Len(s) \/ IsDigit(s[k + 1])))
TrailingNonDigits(s) ==
    SubSeq(s, 1 + (CHOOSE k \in 0..Len(s) :
                       /\ \A i \in (k + 1)..Len(s) : ~IsDigit(s[i])
                       /\ (k = 0 \/ IsDigit(s[k]))), Len(s))

\* r is the first maximal run in s of digits (digit = TRUE) or of non-digits
IsFirstRun(r, s, digit) ==
    /\ Len(r) > 0
    /\ \A k \in 1..Len(r) : IsDigit(r[k]) = digit
    /\ \E i \in 1..Len(s) :
          /\ OccursAt(r, s, i)
          /\ \A k \in 1..(i - 1) : IsDigit(s[k]) # digit
          /\ (i + Len(r) > Len(s) \/ IsDigit(s[i + Len(r)]) # digit)

\* C1 (as claimed): every accessor raises when the run name does not split on
\* '-' into exactly 4 tokens; no field value is returned for such a name.
C1_AccessorsRejectWrongTokenCount ==
    (last.op \in AccessorOps /\ Len(tokens) # 4) => IsErr(last.result)

\* C3 (as claimed): for a plate-info token with a digit, exp_generation returns
\* the first digit run, exp_plate_type the longest leading run of non-digits
\* (a prefix, possibly empty) and exp_plate_side the trailing run of non-digits
\* (a suffix, possibly empty).
C3_Claimed_LeadingAndTrailingRuns ==
    HasDigit(plate_info) =>
        /\ last.op = "exp_generation" =>
              IsOk(last.result) /\ IsFirstRun(last.result[2], plate_info, TRUE)
        /\ last.op = "exp_plate_type" =>
              IsOk(last.result) /\ last.result[2] = LeadingNonDigits(plate_info)
        /\ last.op = "exp_plate_side" =>
              IsOk(last.result) /\ last.result[2] = TrailingNonDigits(plate_info)

\* C3 (amended): for a plate-info token with a digit, exp_generation returns
\* the first digit run, a non-empty substring of the token; exp_plate_type
\* returns the first run of non-digits wherever it starts (the leading prefix
\* only when the token starts with a non-digit) and raises when the token has
\* none; exp_plate_side returns the non-empty trailing run of non-digits, a
\* suffix, and raises when the token ends in a digit.
C3_PlateFieldsOfDigitToken ==
    HasDigit(plate_info) =>
        /\ last.op = "exp_generation" =>
              /\ IsOk(last.result)
              /\ IsFirstRun(last.result[2], plate_info, TRUE)
              /\ IsSubstring(last.result[2], plate_info)
        /\ last.op = "exp_plate_type" =>
              IF HasNonDigit(plate_info)
              THEN /\ IsOk(last.result)
                   /\ IsFirstRun(last.result[2], plate_info, FALSE)
                   /\ ~IsDigit(plate_info[1]) =>
                          /\ IsPrefix(last.result[2], plate_info)
                          /\ last.result[2] = LeadingNonDigits(plate_info)
                   /\ IsDigit(plate_info[1]) =>
                          ~IsPrefix(last.result[2], plate_info)
              ELSE last.result = Err("AttributeError")
        /\ last.op = "exp_plate_side" =>
              IF ~IsDigit(plate_info[Len(plate_info)])
              THEN /\ IsOk(last.result)
                   /\ Len(last.result[2]) > 0
                   /\ IsSuffix(last.result[2], plate_info)
                   /\ last.result[2] = TrailingNonDigits(plate_info)
              ELSE last.result = Err("AttributeError")

\* the plate type of a token that starts with a digit is taken from its middle
C3_Witness ==
    /\ last.op = "exp_plate_type"
    /\ HasDigit(plate_info)
    /\ IsDigit(plate_info[1])
    /\ IsOk(last.result)
    /\ Len(last.result[2]) > 0

\* C4 (as claimed): exp_plate_type and exp_plate_side never raise, give the
\* empty text for a token made only of digits, and exp_generation raises
\* exactly when the token has no digit.
C4_Claimed_OnlyGenerationFails ==
    /\ last.op = "exp_generation" => (IsErr(last.result) <=> ~HasDigit(plate_info))
    /\ last.op \in {"exp_plate_type", "exp_plate_side"} =>
          /\ IsOk(last.result)
          /\ (Len(plate_info) > 0 /\ AllDigits(plate_info)) => last.result[2] = <<>>

\* C4 (amended): each extraction raises exactly when its pattern has no match:
\* exp_generation when the token has no digit, exp_plate_type when the token
\* has no non-digit character, exp_plate_side when the token is empty or ends
\* in a digit; none of the three ever returns the empty text, and for a token
\* made only of digits exp_plate_type and exp_plate_side both raise.
C4_EachExtractionFailsOnNoMatch ==
    /\ last.op = "exp_generation" =>
          (last.result = Err("AttributeError") <=> ~HasDigit(plate_info))
    /\ last.op = "exp_plate_type" =>
          (last.result = Err("AttributeError") <=> ~HasNonDigit(plate_info))
    /\ last.op = "exp_plate_side" =>
          (last.result = Err("AttributeError") <=>
              (Len(plate_info) = 0 \/ IsDigit(plate_info[Len(plate_info)])))
    /\ last.op \in {"exp_generation", "exp_plate_type", "exp_plate_side"} =>
          (IsOk(last.result) => Len(last.result[2]) > 0)
    /\ (last.op \in {"exp_plate_type", "exp_plate_side"}
            /\ Len(plate_info) > 0 /\ AllDigits(plate_info)) => IsErr(last.result)

\* exp_plate_side has been applied to a non-empty token made only of digits
C4_Witness ==
    /\ last.op = "exp_plate_side"
    /\ Len(plate_info) > 0
    /\ AllDigits(plate_info)
    /\ IsErr(last.result)


-----------------------------------------------------------------------------
(* wells, samples and well_name_to_num *)

\* the first field of every SampleData row, in row order
wells == [i \in 1..Len(sample_data) |-> sample_data[i][1]]

\* the second field of every SampleData row, in row order
samples == [i \in 1..Len(sample_data) |-> sample_data[i][2]]

\* str(n) for n >= 0
RECURSIVE Decimal(_)
Decimal(n) ==
    IF n < 10 THEN <<DigitChar[n + 1]>>
    ELSE Decimal(n \div 10) \o <<DigitChar[(n % 10) + 1]>>

\* format(n, '02'): zero-padded on the left to a width of 2
Format02(n) ==
    LET d == Decimal(n) IN IF Len(d) < 2 THEN <<"0">> \o d ELSE d

WellPrefix == <<"W", "e", "l", "l", "_">>

\* a well number counted from 0: the + 1 left out
well_name_to_num_zero_based(well) ==
    LET hits == {i \in 1..Len(wells) : wells[i] = well}
    IN IF hits = {} THEN Err("IndexError")
       ELSE Ok(WellPrefix \o Format02((CHOOSE i \in hits : \A j \in hits : i <= j) - 1))

\* np.argwhere(self.wells() == well)[0][0] + 1, formatted as Well_{:02}
well_name_to_num(well) ==
    LET hits == {i \in 1..Len(wells) : wells[i] = well}
    IN IF hits = {} THEN Err("IndexError")
       ELSE Ok(WellPrefix \o Format02(CHOOSE i \in hits : \A j \in hits : i <= j))

WellLabels == {"A1", "B1"}
SampleTexts == {"0.1 mg/ml"}
AskedLabels == WellLabels \cup {"Z9"}

InitWells ==
    /\ run_name = <<>>
    /\ sample_data \in SeqUpTo(WellLabels \X SampleTexts, MaxWells)
    /\ file = "open"
    /\ closes = 0
    /\ alive = TRUE
    /\ IdleStore
    /\ last = NoCall

ReadOnly ==
    UNCHANGED <<run_name, sample_data, file, closes, alive,
                uncle_instruments, uncle_experiments, products, clock>>

CallWells ==
    /\ Usable
    /\ last' = [op |-> "wells", result |-> Ok(wells)]
    /\ ReadOnly

CallSamples ==
    /\ Usable
    /\ last' = [op |-> "samples", result |-> Ok(samples)]
    /\ ReadOnly

CallWellNameToNum ==
    /\ Usable
    /\ \E well \in AskedLabels :
          last' = [op |-> "well_name_to_num", arg |-> well,
                   result |-> well_name_to_num(well)]
    /\ ReadOnly

NextWells == CallWells \/ CallSamples \/ CallWellNameToNum

SpecWells == InitWells /\ [][NextWells]_vars

\* C5: a label that occurs in wells() maps to 'Well_' and the 1-based position
\* of its first occurrence, zero-padded to at least two digits (wells()[0] to
\* Well_01, wells()[1] to Well_02); a label that occurs nowhere raises.
C5_WellNumberIsFirstPosition ==
    last.op = "well_name_to_num" =>
        LET hits == {i \in 1..Len(wells) : wells[i] = last.arg}
        IN IF hits = {}
           THEN last.result = Err("IndexError")
           ELSE /\ IsOk(last.result)
                /\ LET r == last.result[2]
                       d == SubSeq(r, 6, Len(r))
                   IN /\ SubSeq(r, 1, 5) = WellPrefix
                      /\ Len(d) >= 2
                      /\ AllDigits(d)
                      /\ Len(d) > 2 => d[1] # "0"
                      /\ DecimalValue(d) \in hits
                      /\ \A j \in hits : DecimalValue(d) <= j
                      /\ last.arg = wells[1] => d = <<"0", "1">>
                      /\ (Len(wells) >= 2 /\ last.arg = wells[2]
                              /\ wells[1] # wells[2]) => d = <<"0", "2">>

\* a label that occurs twice, first at a position past the first, was asked for
C5_Witness ==
    /\ last.op = "well_name_to_num"
    /\ Cardinality({i \in 1..Len(wells) : wells[i] = last.arg}) >= 2
    /\ wells[1] # last.arg
    /\ IsOk(last.result)

-----------------------------------------------------------------------------
(* verify *)

\* a number is <<"int", n>> or <<"float", n>> (the float n.0); np.nan is NaN
NaN == <<"nan", 0>>

NumEq(value, k) == value[1] \in {"int", "float"} /\ value[2] = k

\* verify with the sentinel's sign dropped
verify_plus_one(value) == IF ~NumEq(value, 1) THEN value ELSE NaN

\* if value != -1: return value; else: return np.nan
verify(value) == IF ~NumEq(value, -1) THEN value ELSE NaN

VerifyInputs ==
    ({"int", "float"} \X ((0 - MaxVerify)..MaxVerify)) \cup {NaN}

InitVerify ==
    /\ run_name = <<>>
    /\ IdleFile
    /\ IdleStore
    /\ last = NoCall

CallVerify ==
    /\ \E value \in VerifyInputs :
          last' = [op |-> "verify", arg |-> value, result |-> verify(value),
                   again |-> FALSE]
    /\ ReadOnly

\* the caller verifies a value that verify returned
CallVerifyAgain ==
    /\ last.op = "verify"
    /\ last' = [op |-> "verify", arg |-> last.result,
                result |-> verify(last.result), again |-> TRUE]
    /\ ReadOnly

NextVerify == CallVerify \/ CallVerifyAgain

SpecVerify == InitVerify /\ [][NextVerify]_vars

\* C9: verify(-1) is the missing marker, verify(x) is x for every other x, and
\* verifying a value verify returned (a missing one included) returns it again.
C9_VerifyNormalisesSentinel ==
    last.op = "verify" =>
        /\ NumEq(last.arg, -1) => last.result = NaN
        /\ ~NumEq(last.arg, -1) => last.result = last.arg
        /\ last.again => last.result = last.arg
        /\ last.arg = NaN => last.result = NaN

\* the missing marker that verify(-1) returned has been verified again
C9_Witness ==
    /\ last.op = "verify"
    /\ last.again
    /\ last.arg = NaN
    /\ last.result = NaN


-----------------------------------------------------------------------------
(* The database, add_datetime and the two writers *)

Null == <<"null">>
Some(id) == <<"id", id>>

\* the rows a SELECT id ... WHERE <column> = key gives back, in table order
Select(table, column, key) ==
    LET hits == {i \in 1..Len(table) : table[i][column] = key}
        RECURSIVE Pick(_)
        Pick(i) == IF i > Len(table) THEN <<>>
                   ELSE IF i \in hits THEN <<[id |-> table[i].id]>> \o Pick(i + 1)
                   ELSE Pick(i + 1)
    IN Pick(1)

\* the products table as a sequence (a set of rows in any one order)
RECURSIVE AsSeq(_)
AsSeq(S) ==
    IF S = {} THEN <<>>
    ELSE LET x == CHOOSE y \in S : TRUE IN <<x>> \o AsSeq(S \ {x})

Caught == {"TypeError", "AttributeError", "IndexError"}

\* the lookup with IndexError left out of the except clause
lookup_id_uncaught(rows) ==
    LET r == Index(rows, 0)
    IN IF IsErr(r)
       THEN (IF r[2] \in {"TypeError", "AttributeError"} THEN Ok(Null) ELSE r)
       ELSE Ok(Some(r[2].id))

\* try: x.mappings().all()[0]['id']
\* except (TypeError, AttributeError, IndexError): None
lookup_id(rows) ==
    LET r == Index(rows, 0)
    IN IF IsErr(r)
       THEN (IF r[2] \in Caught THEN Ok(Null) ELSE r)
       ELSE Ok(Some(r[2].id))

\* add_datetime reading the clock once for each column
add_datetime_two_reads(df) ==
    [c \in DOMAIN df \cup {"created_at", "updated_at"} |->
        IF c = "created_at" THEN clock
        ELSE IF c = "updated_at" THEN clock + 1
        ELSE df[c]]

\* dt = datetime.now(); df['created_at'] = dt; df['updated_at'] = dt
add_datetime(df) ==
    [c \in DOMAIN df \cup {"created_at", "updated_at"} |->
        IF c \in {"created_at", "updated_at"} THEN clock ELSE df[c]]

\* to_sql with if_exists = 'replace'
to_sql_replace(table, df) == <<df>>

\* df.to_sql(table, engine, if_exists = 'append', index = False); the store is
\* taken to accept the row
to_sql(table, df) == Append(table, df)

\* a raise swallowed: the statements after it run as if nothing was raised
FirstRaise_swallowed(results) == Ok("no raise")

\* the exception, if any, that a sequence of evaluations raises: the first one
FirstRaise(results) ==
    LET bad == {i \in 1..Len(results) : IsErr(results[i])}
    IN IF bad = {} THEN Ok("no raise")
       ELSE results[CHOOSE i \in bad : \A j \in bad : i <= j]

\* what the i-th evaluation gave: its value, or nothing when it raised
Val(r) == IF IsOk(r) THEN r[2] ELSE <<"unset">>

Query(outcome) ==
    IF outcome = "raises" THEN Err("DBAPIError in execute") ELSE Ok("rows")

Stamped(df, datetime_needed) == IF datetime_needed THEN add_datetime(df) ELSE df

Tick(datetime_needed) == IF datetime_needed THEN clock + 1 ELSE clock

\* HDF5.write_experiment_info_sql.  The accessor results are bound once (a
\* singleton \E) and used as values below.
write_experiment_info_sql ==
    /\ Usable
    /\ Len(uncle_experiments) < MaxExperiments
    /\ \E inst_num \in {exp_inst_num}, product \in {exp_product},
          plate_type \in {exp_plate_type}, generation \in {exp_generation},
          plate_side \in {exp_plate_side}, name \in {exp_name} :
       \E inst_id \in {IF IsOk(inst_num)
                       THEN lookup_id(Select(uncle_instruments, "id", inst_num[2]))
                       ELSE inst_num},
          prod_id \in {IF IsOk(product)
                       THEN lookup_id(Select(AsSeq(products), "name", product[2]))
                       ELSE product} :
       \E datetime_needed \in BOOLEAN, q_inst \in {"answers", "raises"},
          q_prod \in {"answers", "raises"}, date \in exp_date :
       \E raised \in {FirstRaise(<<inst_num, Query(q_inst),
                                   product, Query(q_prod),
                                   inst_id, prod_id,
                                   date, plate_type, generation,
                                   plate_side>>)} :
           LET exp_info == [name |-> name,
                            date |-> Val(date),
                            uncle_instrument_id |-> Val(inst_id),
                            product_id |-> Val(prod_id),
                            exp_type |-> Val(plate_type),
                            plate_generation |-> Val(generation),
                            plate_side |-> Val(plate_side)]
               df == Stamped(exp_info, datetime_needed)
               Call(result) == [op |-> "write_experiment_info_sql",
                                datetime_needed |-> datetime_needed,
                                q_inst |-> q_inst, q_prod |-> q_prod,
                                result |-> result]
           IN /\ datetime_needed => clock < MaxClock
              /\ IF IsErr(raised)
                 THEN /\ last' = Call(raised)
                      /\ clock' = clock
                      /\ UNCHANGED uncle_experiments
                 ELSE /\ last' = Call(Ok(df))
                      /\ clock' = Tick(datetime_needed)
                      /\ uncle_experiments' = to_sql(uncle_experiments, df)
    /\ UNCHANGED <<run_name, sample_data, file, closes, alive,
                   uncle_instruments, products>>

\* HDF5.write_instrument_info_sql
write_instrument_info_sql ==
    /\ Usable
    /\ Len(uncle_instruments) < MaxInstruments
    /\ \E inst_num \in {exp_inst_num} :
       \E datetime_needed \in BOOLEAN :
       \E raised \in {FirstRaise(<<inst_num>>)} :
           LET inst_info == [id |-> Val(inst_num),
                             name |-> "Uncle_01",
                             location |-> "Shnider/Hough lab",
                             model |-> "Uncle"]
               df == Stamped(inst_info, datetime_needed)
               Call(result) == [op |-> "write_instrument_info_sql",
                                datetime_needed |-> datetime_needed,
                                result |-> result]
           IN /\ datetime_needed => clock < MaxClock
              /\ IF IsErr(raised)
                 THEN /\ last' = Call(raised)
                      /\ clock' = clock
                      /\ UNCHANGED uncle_instruments
                 ELSE /\ last' = Call(Ok(df))
                      /\ clock' = Tick(datetime_needed)
                      /\ uncle_instruments' = to_sql(uncle_instruments, df)
    /\ UNCHANGED <<run_name, sample_data, file, closes, alive,
                   uncle_experiments, products>>

-----------------------------------------------------------------------------
(* df_to_sql *)

\* df[col] = v
SetColumn(cols, col, v) ==
    [c \in DOMAIN cols \cup {col} |-> IF c = col THEN v ELSE cols[c]]

\* Python truth of the well argument: None and '' are false
Truthy(well) == well # None /\ well # <<>>

\* A frame handed to df_to_sql is [name |-> its name attribute or None,
\* cols |-> its columns]; the result is Ok of the frame or the raise.
df_to_sql(df, well) ==
    IF df.name = None THEN Err("AttributeError")
    ELSE LET parts == split(df.name, "_")
             d1 == SetColumn(df.cols, "export_type", parts[1])
             d2 == add_datetime(d1)
             d3 == IF Truthy(well) THEN SetColumn(d2, "well", well) ELSE d2
             d4 == IF Len(parts) = 2
                   THEN SetColumn(d3, "dls_data_type", parts[2]) ELSE d3
         IN Ok([name |-> df.name, cols |-> d4])

\* 'dls', 'dls_sum', 'dls_sum_x', '' and a frame with no name attribute
DfNames == {<<"d", "l", "s">>, <<"d", "l", "s", "_", "s", "u", "m">>,
            <<"d", "l", "s", "_", "s", "u", "m", "_", "x">>, <<>>, None}
DfWells == {None, <<>>, <<"A", "1">>}

\* a caller maps a frame; datetime_needed is the caller's configuration, for
\* which df_to_sql has no parameter
CallDfToSql ==
    /\ clock < MaxClock
    /\ \E name \in DfNames, well \in DfWells, datetime_needed \in BOOLEAN :
        LET df == [name |-> name, cols |-> [value |-> 1]]
            r == df_to_sql(df, well)
        IN /\ last' = [op |-> "df_to_sql", arg |-> df, well |-> well,
                       datetime_needed |-> datetime_needed, result |-> r]
           /\ clock' = IF IsOk(r) THEN clock + 1 ELSE clock
    /\ UNCHANGED <<run_name, sample_data, file, closes, alive,
                   uncle_instruments, uncle_experiments, products>>

-----------------------------------------------------------------------------
(* The end of the accessor's life *)

\* The class defines no close, no __enter__/__exit__ and no __del__, and no
\* caller closes self.file: when the object goes away (h1 and h2 live until
\* the interpreter exits) the handle is released only if the library's
\* finaliser happens to run.
Teardown ==
    /\ alive
    /\ alive' = FALSE
    /\ \E released \in BOOLEAN :
          IF released
          THEN file' = "closed" /\ closes' = closes + 1
          ELSE UNCHANGED <<file, closes>>
    /\ last' = [op |-> "teardown"]
    /\ UNCHANGED <<run_name, sample_data, uncle_instruments,
                   uncle_experiments, products, clock>>

-----------------------------------------------------------------------------
(* Spec: one file, the database, and any sequence of calls *)

D_ok == <<"2", "1", "0", "6", "0", "2">>
D_bad == <<"2", "1", "x">>
I_ok == <<"0", "1">>
I_bad == <<"p">>
P_known == <<"S", "1">>
P_unknown == <<"T", "4">>
PL_ok == <<"p", "H", "0", "0", "3", "R">>
PL_nodigit == <<"p", "H">>
PL_alldigit == <<"0", "0", "3">>

RunNames ==
    {join(<<d, i, p, pl>>, "-") :
        d \in {D_ok, D_bad}, i \in {I_ok, I_bad},
        p \in {P_known, P_unknown}, pl \in {PL_ok, PL_nodigit, PL_alldigit}}
    \cup {join(<<D_ok, I_ok, P_known>>, "-"),
          join(<<D_ok, I_ok, P_known, P_unknown, PL_ok>>, "-"),
          join(<<D_ok>>, "-")}

Init ==
    /\ run_name \in RunNames
    /\ IdleFile
    /\ uncle_instruments = <<>>
    /\ uncle_experiments = <<>>
    /\ products = {[id |-> 7, name |-> P_known]}
    /\ clock = 0
    /\ last = NoCall

Next ==
    \/ write_experiment_info_sql
    \/ write_instrument_info_sql
    \/ Teardown

Spec == Init /\ [][Next]_vars

-----------------------------------------------------------------------------
(* SpecStamp: the three mappers that stamp rows, on one well-formed file *)

InitStamp ==
    /\ run_name = join(<<D_ok, I_ok, P_known, PL_ok>>, "-")
    /\ IdleFile
    /\ uncle_instruments = <<>>
    /\ uncle_experiments = <<>>
    /\ products = {[id |-> 7, name |-> P_known]}
    /\ clock = 0
    /\ last = NoCall

NextStamp ==
    \/ write_experiment_info_sql
    \/ write_instrument_info_sql
    \/ CallDfToSql

SpecStamp == InitStamp /\ [][NextStamp]_vars


-----------------------------------------------------------------------------
(* Claims about the writers and the handle, checked under Spec *)

Writers == {"write_experiment_info_sql", "write_instrument_info_sql"}

\* every field of the run name parses
ParseOk ==
    /\ IsOk(exp_inst_num)
    /\ IsOk(exp_product)
    /\ \A r \in exp_date : IsOk(r)
    /\ IsOk(exp_plate_type)
    /\ IsOk(exp_generation)
    /\ IsOk(exp_plate_side)

\* some field of the run name does not parse
ParseFails ==
    \/ IsErr(exp_inst_num)
    \/ IsErr(exp_product)
    \/ \A r \in exp_date : IsErr(r)
    \/ IsErr(exp_plate_type)
    \/ IsErr(exp_generation)
    \/ IsErr(exp_plate_side)

NoInstrumentRow ==
    ~\E i \in 1..Len(uncle_instruments) : uncle_instruments[i].id = exp_inst_num[2]

NoProductRow == ~\E p \in products : p.name = exp_product[2]

ProductId == (CHOOSE p \in products : p.name = exp_product[2]).id

NaturalKey(row) ==
    <<row.name, row.date, row.exp_type, row.plate_generation, row.plate_side>>

ParsedKey(date) ==
    <<run_name, date, exp_plate_type[2], exp_generation[2], exp_plate_side[2]>>

\* C2 (as claimed): when a foreign-key lookup finds no row or its query
\* raises, the call still succeeds and the row carries null for that id.
C2_Claimed_QueryErrorGivesNull ==
    (last.op = "write_experiment_info_sql" /\ ParseOk) =>
        /\ IsOk(last.result)
        /\ (last.q_inst = "raises" \/ NoInstrumentRow) =>
              last.result[2].uncle_instrument_id = Null
        /\ (last.q_prod = "raises" \/ NoProductRow) =>
              last.result[2].product_id = Null

\* C2 (amended): for a run name that parses, a lookup that finds no row gives
\* null for its id and the row is appended with name, date, exp_type, plate_generation and plate_side as parsed; a
\* lookup whose query raises makes the whole call raise, and no row is added.
C2_LookupMissGivesNull ==
    [][(last'.op = "write_experiment_info_sql" /\ ParseOk) =>
          IF last'.q_inst = "raises" \/ last'.q_prod = "raises"
          THEN /\ last'.result = Err("DBAPIError in execute")
               /\ UNCHANGED <<uncle_experiments, uncle_instruments>>
          ELSE /\ IsOk(last'.result)
               /\ uncle_experiments' = Append(uncle_experiments, last'.result[2])
               /\ LET row == last'.result[2]
                  IN /\ row.uncle_instrument_id =
                            (IF NoInstrumentRow THEN Null ELSE Some(exp_inst_num[2]))
                     /\ row.product_id =
                            (IF NoProductRow THEN Null ELSE Some(ProductId))
                     /\ \E d \in exp_date : NaturalKey(row) = ParsedKey(d[2])
      ]_vars

\* a row was written with a null product id next to a found instrument id
C2_Witness ==
    /\ last.op = "write_experiment_info_sql"
    /\ IsOk(last.result)
    /\ last.result[2].product_id = Null
    /\ last.result[2].uncle_instrument_id # Null
    /\ Len(uncle_experiments) > 0
    /\ uncle_experiments[Len(uncle_experiments)] = last.result[2]

\* C6: the writers only append: a successful call adds exactly its one row at
\* the end of its own table, no call changes or removes an earlier row, and
\* every row the experiment writer adds for the file has the natural key
\* (name, date, exp_type, plate_generation, plate_side) of the rows before it.
C6_AppendOnly ==
    [][/\ Len(uncle_experiments') >= Len(uncle_experiments)
       /\ SubSeq(uncle_experiments', 1, Len(uncle_experiments)) = uncle_experiments
       /\ Len(uncle_instruments') >= Len(uncle_instruments)
       /\ SubSeq(uncle_instruments', 1, Len(uncle_instruments)) = uncle_instruments
       /\ (last'.op = "write_experiment_info_sql" /\ IsOk(last'.result)) =>
             /\ uncle_experiments' = Append(uncle_experiments, last'.result[2])
             /\ uncle_instruments' = uncle_instruments
             /\ \A i \in 1..Len(uncle_experiments) :
                   NaturalKey(uncle_experiments[i]) = NaturalKey(last'.result[2])
       /\ (last'.op = "write_instrument_info_sql" /\ IsOk(last'.result)) =>
             /\ uncle_instruments' = Append(uncle_instruments, last'.result[2])
             /\ uncle_experiments' = uncle_experiments
      ]_vars

\* the experiment writer ran twice on the file: two rows, one natural key
C6_Witness ==
    /\ last.op = "write_experiment_info_sql"
    /\ Len(uncle_experiments) = 2
    /\ NaturalKey(uncle_experiments[1]) = NaturalKey(uncle_experiments[2])

\* C7 (as claimed): once the accessor is gone its handle has been released,
\* and the handle is never released twice.
C7_HandleReleasedExactlyOnce ==
    /\ closes <= 1
    /\ ~alive => (closes = 1 /\ file = "closed")

\* C10: a writer called on a file whose run name has a field that does not
\* parse raises and leaves both tables as they were.
C10_ParseFailureWritesNothing ==
    [][(last'.op \in Writers
          /\ (IF last'.op = "write_instrument_info_sql"
              THEN IsErr(exp_inst_num) ELSE ParseFails)) =>
          /\ IsErr(last'.result)
          /\ UNCHANGED <<uncle_experiments, uncle_instruments>>
      ]_vars

\* after an instrument row was written, the experiment writer raised on the
\* plate-info token and the tables kept that one row
C10_Witness ==
    /\ last.op = "write_experiment_info_sql"
    /\ last.result = Err("AttributeError")
    /\ Len(uncle_instruments) = 1
    /\ Len(uncle_experiments) = 0

-----------------------------------------------------------------------------
(* Claim about the stamping, checked under SpecStamp *)

HasStamps(cols) == {"created_at", "updated_at"} \subseteq DOMAIN cols
HasNoStamp(cols) == {"created_at", "updated_at"} \cap DOMAIN cols = {}

\* both columns hold the one reading the call took: the clock is one past it
StampedNow(cols) ==
    /\ HasStamps(cols)
    /\ cols.created_at = clock - 1
    /\ cols.updated_at = clock - 1

RowsStampedAlike(table) ==
    \A i \in 1..Len(table) :
        \/ HasNoStamp(table[i])
        \/ HasStamps(table[i]) /\ table[i].created_at = table[i].updated_at

WritersStampUnderGate ==
    (last.op \in Writers /\ IsOk(last.result)) =>
        IF last.datetime_needed THEN StampedNow(last.result[2])
        ELSE HasNoStamp(last.result[2])

\* C8 (as claimed): rows written with datetime_needed carry created_at and
\* updated_at holding one clock reading, rows written without it carry
\* neither, and df_to_sql stamps under the same gate.
C8_Claimed_MapperGated ==
    /\ RowsStampedAlike(uncle_experiments)
    /\ RowsStampedAlike(uncle_instruments)
    /\ WritersStampUnderGate
    /\ (last.op = "df_to_sql" /\ IsOk(last.result)) =>
          IF last.datetime_needed THEN StampedNow(last.result[2].cols)
          ELSE HasNoStamp(last.result[2].cols)

\* C8 (amended): rows written with datetime_needed carry created_at and
\* updated_at holding one clock reading, rows written without it carry
\* neither; df_to_sql has no gate and stamps every frame it maps in the
\* same way.
C8_StampsEqualWritersGated ==
    /\ RowsStampedAlike(uncle_experiments)
    /\ RowsStampedAlike(uncle_instruments)
    /\ WritersStampUnderGate
    /\ (last.op = "df_to_sql" /\ IsOk(last.result)) =>
          StampedNow(last.result[2].cols)

\* df_to_sql stamped a frame for a caller configured without timestamps,
\* after a writer had written a row without them
C8_Witness ==
    /\ last.op = "df_to_sql"
    /\ ~last.datetime_needed
    /\ IsOk(last.result)
    /\ HasStamps(last.result[2].cols)
    /\ Len(uncle_experiments) > 0
    /\ HasNoStamp(uncle_experiments[1])

=============================================================================
